---------------------------- MODULE Spec2Model ----------------------------
(***************************************************************************)
(* greentree-backend: catalogue (Category, Product) and order processing   *)
(* (Order, OrderItem) of src/core, as a state machine over the persisted   *)
(* tables.  Every request handler is one action; Order.save is also given  *)
(* as the separate database steps it performs, for interleaved requests.   *)
(*                                                                         *)
(* Money is a Decimal with two places in the code; it is an integer number *)
(* of cents here (99.99 is 9999), so products and sums are exact as they   *)
(* are for Decimal.  Primary keys are uuid4 values in the code; here each  *)
(* insert takes the next value of a counter.                               *)
(***************************************************************************)
EXTENDS Integers, Sequences, FiniteSets, TLC

VARIABLES
    categories,   \* table core_category: set of rows
    products,     \* table core_product: set of rows
    orders,       \* table core_order: set of rows
    order_items,  \* table core_orderitem: set of rows
    clock,        \* number of orders inserted so far: the next id and created_at
    issued,       \* history: every order-number suffix an insert has been given
    response,     \* what the last request was answered with
    pc,           \* per worker: how far its Order.save has got
    pending,      \* per worker: the Order instance it is saving
    listing       \* ids of the products the last product list returned

vars == <<categories, products, orders, order_items, clock, issued, response, pc, pending,
          listing>>
catalogVars == <<categories, products>>
orderVars == <<orders, order_items, clock, issued>>
workerVars == <<pc, pending>>

-----------------------------------------------------------------------------
(* Bounds of the model *)

MaxOrders == 2       \* orders inserted in one behaviour of Spec
MaxNumbered == 3     \* orders inserted in one behaviour of SpecSequential, SpecConcurrent
MaxModelOrders == 1  \* orders inserted in one behaviour of SpecModel
MaxProducts == 2     \* products in the catalogue at once
MaxCategories == 2   \* categories in the catalogue at once
MaxShelf == 1        \* products at once in SpecProducts
MaxStoreOrders == 2  \* orders inserted in one behaviour of SpecStore
MaxShopOrders == 1   \* orders inserted in one behaviour of SpecShop

\* The concurrent requests of SpecConcurrent.
Workers == {"w1", "w2"}

(* An optional value: <<>> is Python's None (or a key missing from the      *)
(* request), <<v>> is the value v.                                          *)
Absent == <<>>
Some(v) == <<v>>
IsAbsent(o) == o = <<>>
Get(o) == o[1]

Min(S) == CHOOSE m \in S : \A n \in S : m <= n

-----------------------------------------------------------------------------
(* Responses *)

HTTP_201_CREATED == 201
HTTP_400_BAD_REQUEST == 400

\* op: the handler; code: the status code (200 and 204 for success, 404 from
\* get_object, 500 when an exception leaves the handler: rest_framework turns
\* only its own APIException, Http404 and PermissionDenied into responses);
\* error: the error body or the exception that ended the handler ("" when it
\* succeeded); id: the row the response is about (0: none).
Response(op, code, error, id) == [op |-> op, code |-> code, error |-> error, id |-> id]

NoResponse == Response("", 0, "", 0)

-----------------------------------------------------------------------------
(* Category *)

CategoryIds == 1 .. MaxCategories

\* Category.clean
Category_clean(c) ==
    IF c.name = "" THEN "name"
    ELSE IF Len(c.name) > 100 THEN "name"
    ELSE ""

\* Category.full_clean: the field checks (blank, max_length, unique) and clean
Category_full_clean(cats, c) ==
    IF c.name = "" \/ Len(c.name) > 100 THEN "name"
    ELSE IF \E d \in cats : d.name = c.name /\ d.id # c.id THEN "name"
    ELSE Category_clean(c)

\* CategorySerializer.is_valid: name required and not blank, max_length,
\* UniqueValidator, validate_name
CategorySerializer_is_valid(cats, name) ==
    /\ name # ""
    /\ Len(name) <= 100
    /\ ~ \E d \in cats : d.name = name
    /\ Len(name) >= 2

\* CategoryViewSet.create (ModelViewSet): is_valid, then Category.save
CategoryViewSet_create(cats, name) ==
    IF ~ CategorySerializer_is_valid(cats, name)
    THEN [categories |-> cats,
          response |-> Response("category_create", HTTP_400_BAD_REQUEST, "ValidationError", 0)]
    ELSE LET c == [id |-> Min(CategoryIds \ {d.id : d \in cats}), name |-> name] IN
         IF Category_full_clean(cats, c) # ""
         THEN [categories |-> cats,
               response |-> Response("category_create", 500, "django.ValidationError", 0)]
         ELSE [categories |-> cats \cup {c},
               response |-> Response("category_create", HTTP_201_CREATED, "", c.id)]

-----------------------------------------------------------------------------
(* Product *)

ProductIds == 1 .. MaxProducts

PRODUCT_STATUS_CHOICES == {"active", "inactive", "discontinued"}

\* Product.clean
Product_clean(p) ==
    IF p.name = "" THEN "name"
    ELSE IF p.price < 0 THEN "price"
    ELSE IF p.stock_quantity < 0 THEN "stock_quantity"
    ELSE ""

\* A full_clean without MinValueValidator(0) and without clean
Product_full_clean_without_minimums(cats, p) ==
    IF p.name = "" THEN "name"
    ELSE IF p.status \notin PRODUCT_STATUS_CHOICES THEN "status"
    ELSE IF ~ \E c \in cats : c.id = p.category THEN "category"
    ELSE ""

\* Product.full_clean: the field validators (name not blank, MinValueValidator(0)
\* on price and stock_quantity, the status choices, the category row), then clean
Product_full_clean(cats, p) ==
    IF p.name = "" THEN "name"
    ELSE IF p.price < 0 THEN "price"
    ELSE IF p.stock_quantity < 0 THEN "stock_quantity"
    ELSE IF p.status \notin PRODUCT_STATUS_CHOICES THEN "status"
    ELSE IF ~ \E c \in cats : c.id = p.category THEN "category"
    ELSE Product_clean(p)

\* Product.is_available
is_available(p) == p.status = "active" /\ p.stock_quantity > 0

\* ProductSerializer.validate_price
validate_price(value) == ~ (value <= 0)

\* ProductSerializer.validate_stock_quantity
validate_stock_quantity(value) == ~ (value < 0)

\* ProductSerializer.is_valid on {category, name, description, price,
\* stock_quantity}: the category row exists, name is not blank, the fields'
\* min_value 0, then validate_price and validate_stock_quantity
ProductSerializer_is_valid(cats, req) ==
    /\ \E c \in cats : c.id = req.category
    /\ req.name # ""
    /\ req.price >= 0 /\ validate_price(req.price)
    /\ req.stock_quantity >= 0 /\ validate_stock_quantity(req.stock_quantity)

\* ProductViewSet.create (ModelViewSet): is_valid, ProductSerializer.create
\* (status defaults to active), Product.save
ProductViewSet_create(cats, prods, req) ==
    IF ~ ProductSerializer_is_valid(cats, req)
    THEN [products |-> prods,
          response |-> Response("product_create", HTTP_400_BAD_REQUEST, "ValidationError", 0)]
    ELSE LET p == [id |-> Min(ProductIds \ {q.id : q \in prods}),
                   category |-> req.category, name |-> req.name, price |-> req.price,
                   stock_quantity |-> req.stock_quantity, status |-> "active"] IN
         IF Product_full_clean(cats, p) # ""
         THEN [products |-> prods,
               response |-> Response("product_create", 500, "django.ValidationError", 0)]
         ELSE [products |-> prods \cup {p},
               response |-> Response("product_create", HTTP_201_CREATED, "", p.id)]

-----------------------------------------------------------------------------
(* Python's int() on a value of a JSON request body *)

\* JSON values: a number without a fraction is an int, one with a fraction a
\* float n/d (3.7 is JFloat(37, 10)), a string is its characters.
JInt(n) == [t |-> "int", v |-> n]
JFloat(n, d) == [t |-> "float", n |-> n, d |-> d]
JStr(chars) == [t |-> "str", s |-> chars]

Digits == <<"0", "1", "2", "3", "4", "5", "6", "7", "8", "9">>
IsDigit(c) == \E i \in 1 .. 10 : Digits[i] = c
DigitValue(c) == (CHOOSE i \in 1 .. 10 : Digits[i] = c) - 1

RECURSIVE DigitsToInt(_)
DigitsToInt(ds) ==
    IF ds = <<>> THEN 0
    ELSE DigitsToInt(SubSeq(ds, 1, Len(ds) - 1)) * 10 + DigitValue(ds[Len(ds)])

\* int("..."): an optional sign and then digits only, else ValueError
StrIsInt(chars) ==
    LET body == IF chars # <<>> /\ chars[1] \in {"+", "-"} THEN Tail(chars) ELSE chars IN
    /\ body # <<>>
    /\ \A i \in 1 .. Len(body) : IsDigit(body[i])

StrToInt(chars) ==
    IF chars[1] = "-" THEN 0 - DigitsToInt(Tail(chars))
    ELSE IF chars[1] = "+" THEN DigitsToInt(Tail(chars))
    ELSE DigitsToInt(chars)

\* int(n/d) truncates toward zero
Truncate(n, d) == IF n >= 0 THEN n \div d ELSE 0 - ((0 - n) \div d)

\* int(x): [ok, v] or the exception it raises
PyInt(x) ==
    IF x.t = "int" THEN [ok |-> TRUE, v |-> x.v, exc |-> ""]
    ELSE IF x.t = "float" THEN [ok |-> TRUE, v |-> Truncate(x.n, x.d), exc |-> ""]
    ELSE IF x.t = "str" /\ StrIsInt(x.s) THEN [ok |-> TRUE, v |-> StrToInt(x.s), exc |-> ""]
    ELSE IF x.t = "str" THEN [ok |-> FALSE, v |-> 0, exc |-> "ValueError"]
    ELSE [ok |-> FALSE, v |-> 0, exc |-> "TypeError"]

-----------------------------------------------------------------------------
(* ProductViewSet.update_stock *)

\* pk: the product of the URL; quantity: request.data.get('quantity'), Absent
\* when the key is missing or null.
ProductViewSet_update_stock(cats, prods, pk, quantity) ==
    IF ~ \E p \in prods : p.id = pk
    THEN [products |-> prods, response |-> Response("update_stock", 404, "Http404", pk)]
    ELSE IF IsAbsent(quantity)
    THEN [products |-> prods,
          response |-> Response("update_stock", HTTP_400_BAD_REQUEST, "Quantity is required", pk)]
    ELSE LET product == CHOOSE p \in prods : p.id = pk
             n == PyInt(Get(quantity)) IN
         IF ~ n.ok
         THEN [products |-> prods,
               response |-> Response("update_stock", HTTP_400_BAD_REQUEST,
                                     "Quantity must be a valid integer", pk)]
         ELSE LET updated == [product EXCEPT !.stock_quantity = n.v] IN
              IF Product_full_clean(cats, updated) # ""
              THEN [products |-> prods,
                    response |-> Response("update_stock", HTTP_400_BAD_REQUEST,
                                          "django.ValidationError", pk)]
              ELSE [products |-> (prods \ {product}) \cup {updated},
                    response |-> Response("update_stock", 200, "", pk)]

-----------------------------------------------------------------------------
(* Order numbers: f"ORD-{new_num:06d}" and int(order_number.split('-')[1]) *)

RECURSIVE IntToDigits(_)
IntToDigits(n) ==
    IF n < 10 THEN <<Digits[n + 1]>>
    ELSE IntToDigits(n \div 10) \o <<Digits[(n % 10) + 1]>>

RECURSIVE ZeroPad(_, _)
ZeroPad(ds, width) == IF Len(ds) >= width THEN ds ELSE ZeroPad(<<"0">> \o ds, width)

\* f"ORD-{new_num:06d}"
format_order_number(new_num) == <<"O", "R", "D", "-">> \o ZeroPad(IntToDigits(new_num), 6)

\* str.split('-'): the pieces between the dashes
RECURSIVE SplitDash(_, _)
SplitDash(chars, piece) ==
    IF chars = <<>> THEN <<piece>>
    ELSE IF Head(chars) = "-" THEN <<piece>> \o SplitDash(Tail(chars), <<>>)
    ELSE SplitDash(Tail(chars), Append(piece, Head(chars)))

\* int(order_number.split('-')[1])
parse_order_number(order_number) == DigitsToInt(SplitDash(order_number, <<>>)[2])

-----------------------------------------------------------------------------
(* Order *)

ORDER_STATUS_CHOICES == {"pending", "processing", "shipped", "delivered", "cancelled"}

\* Order.objects.order_by('-created_at').first(): Absent when there is no order
last_order(ords) ==
    IF ords = {} THEN Absent
    ELSE Some(CHOOSE o \in ords : \A x \in ords : x.created_at <= o.created_at)

\* Order.save with the number generated on every save, not only the first
Order_generate_number_on_every_save(ords, instance) ==
    LET last == last_order(ords)
        new_num == IF ~ IsAbsent(last) /\ Get(last).order_number # <<>>
                   THEN parse_order_number(Get(last).order_number) + 1
                   ELSE 1001
    IN [instance EXCEPT !.order_number = format_order_number(new_num)]

\* Order.save, lines 172-180: the order number of an instance that has none
Order_generate_number(ords, instance) ==
    IF instance.order_number = <<>>
    THEN LET last == last_order(ords)
             new_num == IF ~ IsAbsent(last) /\ Get(last).order_number # <<>>
                        THEN parse_order_number(Get(last).order_number) + 1
                        ELSE 1001
         IN [instance EXCEPT !.order_number = format_order_number(new_num)]
    ELSE instance

\* Order.clean
Order_clean(o) ==
    IF o.customer_name = "" THEN "customer_name"
    ELSE IF o.customer_email = "" THEN "customer_email"
    ELSE IF o.total_amount < 0 THEN "total_amount"
    ELSE ""

\* Order.full_clean: clean_fields (blank, max_length 20 of order_number,
\* MinValueValidator(0), the status choices), clean, validate_unique
\* (order_number is unique: another row holds it)
Order_full_clean(ords, o) ==
    IF o.order_number = <<>> \/ Len(o.order_number) > 20 THEN "order_number"
    ELSE IF o.customer_name = "" THEN "customer_name"
    ELSE IF o.customer_email = "" THEN "customer_email"
    ELSE IF o.total_amount < 0 THEN "total_amount"
    ELSE IF o.status \notin ORDER_STATUS_CHOICES THEN "status"
    ELSE IF Order_clean(o) # "" THEN Order_clean(o)
    ELSE IF \E x \in ords : x.order_number = o.order_number /\ x.id # o.id THEN "order_number"
    ELSE ""

\* The write on a table whose order_number column has no unique index
Order_write_without_unique_index(ords, o, now) ==
    IF o.id # 0
    THEN [orders |-> {x \in ords : x.id # o.id} \cup {o}, error |-> "", instance |-> o]
    ELSE LET row == [o EXCEPT !.id = now, !.created_at = now] IN
         [orders |-> ords \cup {row}, error |-> "", instance |-> row]

\* super().save() of an instance: INSERT when it has no row yet (id 0 here;
\* the row gets the next id, and created_at is auto_now_add), UPDATE otherwise.
\* The unique index on order_number is the database's: a second row with the
\* number is an IntegrityError.  [orders, error, instance]
Order_write(ords, o, now) ==
    IF \E x \in ords : x.order_number = o.order_number /\ x.id # o.id
    THEN [orders |-> ords, error |-> "IntegrityError", instance |-> o]
    ELSE IF o.id # 0
    THEN [orders |-> {x \in ords : x.id # o.id} \cup {o}, error |-> "", instance |-> o]
    ELSE LET row == [o EXCEPT !.id = now, !.created_at = now] IN
         [orders |-> ords \cup {row}, error |-> "", instance |-> row]

\* Order.save: [orders, error, instance]
Order_save(ords, instance, now) ==
    LET o == Order_generate_number(ords, instance) IN
    IF Order_full_clean(ords, o) # ""
    THEN [orders |-> ords, error |-> "django.ValidationError", instance |-> o]
    ELSE Order_write(ords, o, now)

-----------------------------------------------------------------------------
(* OrderItem *)

\* OrderItem.clean without its subtotal rule
OrderItem_clean_without_subtotal(i) ==
    IF i.quantity < 1 THEN "quantity"
    ELSE IF i.unit_price < 0 THEN "unit_price"
    ELSE ""

\* OrderItem.clean
OrderItem_clean(i) ==
    IF i.quantity < 1 THEN "quantity"
    ELSE IF i.unit_price < 0 THEN "unit_price"
    ELSE IF i.subtotal # i.quantity * i.unit_price THEN "subtotal"
    ELSE ""

\* OrderItem.full_clean: clean_fields (MinValueValidator(1), the order and
\* product rows), clean, validate_unique (unique_together order, product).
\* old is the row the instance was loaded from, Absent for a new instance.
OrderItem_full_clean(prods, ords, items, old, i) ==
    IF ~ \E o \in ords : o.id = i.order THEN "order"
    ELSE IF ~ \E p \in prods : p.id = i.product THEN "product"
    ELSE IF i.quantity < 1 THEN "quantity"
    ELSE IF OrderItem_clean(i) # "" THEN OrderItem_clean(i)
    ELSE IF \E x \in items : /\ x.order = i.order /\ x.product = i.product
                             /\ (IsAbsent(old) \/ x # Get(old))
         THEN "unique_together"
    ELSE ""

\* OrderItem.save; the instance's subtotal is optional (None when not set).
\* [order_items, error]
OrderItem_save(prods, ords, items, old, instance) ==
    LET subtotal == IF IsAbsent(instance.subtotal) \/ instance.subtotal = Some(0)
                    THEN instance.quantity * instance.unit_price
                    ELSE Get(instance.subtotal)
        i == [instance EXCEPT !.subtotal = subtotal]
    IN IF OrderItem_full_clean(prods, ords, items, old, i) # ""
       THEN [order_items |-> items, error |-> "django.ValidationError"]
       ELSE [order_items |-> (IF IsAbsent(old) THEN items ELSE items \ {Get(old)}) \cup {i},
             error |-> ""]

\* The rows of an order
ItemsOf(items, order_id) == {i \in items : i.order = order_id}

\* for item_data in order_items_data: OrderItem.objects.create(order=order, **item_data)
\* stops at the first item whose save raises.  [order_items, error]
RECURSIVE create_order_items(_, _, _, _, _)
create_order_items(prods, ords, items, order_id, order_items_data) ==
    IF order_items_data = <<>> THEN [order_items |-> items, error |-> ""]
    ELSE LET d == Head(order_items_data)
             r == OrderItem_save(prods, ords, items, Absent,
                                 [order |-> order_id, product |-> d.product,
                                  quantity |-> d.quantity, unit_price |-> d.unit_price,
                                  subtotal |-> Some(d.subtotal)])
         IN IF r.error # "" THEN r
            ELSE create_order_items(prods, ords, r.order_items, order_id, Tail(order_items_data))

-----------------------------------------------------------------------------
(* OrderItemSerializer, OrderSerializer *)

\* An item validation that also wants the product active and in stock for the
\* quantity
OrderItemSerializer_is_valid_checking_stock(prods, item) ==
    /\ ~ IsAbsent(item.product)
    /\ \E p \in prods : p.id = Get(item.product)
    /\ ~ IsAbsent(item.quantity)
    /\ Get(item.quantity) >= 1
    /\ ~ IsAbsent(item.unit_price)
    /\ LET product == CHOOSE p \in prods : p.id = Get(item.product) IN
       /\ ~ (Get(item.unit_price) # product.price)
       /\ product.status = "active"
       /\ Get(item.quantity) <= product.stock_quantity

\* An item of a request: [product, quantity, unit_price], each optional.
\* OrderItemSerializer.run_validation: product is required and names a row,
\* quantity is required with min_value 1, unit_price is required; then validate:
\* unit_price is the product's price.
OrderItemSerializer_is_valid(prods, item) ==
    /\ ~ IsAbsent(item.product)
    /\ \E p \in prods : p.id = Get(item.product)
    /\ ~ IsAbsent(item.quantity)
    /\ Get(item.quantity) >= 1
    /\ ~ IsAbsent(item.unit_price)
    /\ LET product == CHOOSE p \in prods : p.id = Get(item.product) IN
       ~ (Get(item.unit_price) # product.price)

\* OrderItemSerializer.validate, lines 65-69: the validated item with its subtotal
OrderItemSerializer_validate(item) ==
    [product |-> Get(item.product), quantity |-> Get(item.quantity),
     unit_price |-> Get(item.unit_price),
     subtotal |-> Get(item.quantity) * Get(item.unit_price)]

\* OrderSerializer.validate_total_amount
validate_total_amount(value) == ~ (value <= 0)

\* OrderSerializer.is_valid on a request [customer_name, customer_email,
\* total_amount, order_items]: the names are required and not blank,
\* total_amount is required, min_value 0, validate_total_amount; order_items is
\* not required (required=False), and each item given must be valid.
OrderSerializer_is_valid(prods, req) ==
    /\ req.customer_name # ""
    /\ req.customer_email # ""
    /\ ~ IsAbsent(req.total_amount)
    /\ Get(req.total_amount) >= 0
    /\ validate_total_amount(Get(req.total_amount))
    /\ IF IsAbsent(req.order_items) THEN TRUE
       ELSE \A k \in 1 .. Len(Get(req.order_items)) :
               OrderItemSerializer_is_valid(prods, Get(req.order_items)[k])

\* validated_data['order_items']
validated_items(req) ==
    [k \in 1 .. Len(Get(req.order_items)) |-> OrderItemSerializer_validate(Get(req.order_items)[k])]

\* Order.objects.create(**validated_data): the instance before its first save
\* (no row, no order number, status at its default)
new_order(req) ==
    [id |-> 0, order_number |-> <<>>, created_at |-> 0,
     customer_name |-> req.customer_name, customer_email |-> req.customer_email,
     total_amount |-> Get(req.total_amount), status |-> "pending"]

\* validated_data.pop('order_items', [])
popped_items(req) == IF IsAbsent(req.order_items) THEN <<>> ELSE validated_items(req)

\* OrderSerializer.create: [orders, order_items, error, id]
OrderSerializer_create(prods, ords, items, req, now) ==
    LET saved == Order_save(ords, new_order(req), now) IN
    IF saved.error # ""
    THEN [orders |-> ords, order_items |-> items, error |-> saved.error, id |-> 0]
    ELSE LET created == create_order_items(prods, saved.orders, items,
                                           saved.instance.id, popped_items(req))
         IN [orders |-> saved.orders, order_items |-> created.order_items,
             error |-> created.error, id |-> saved.instance.id]

\* OrderSerializer.update that adds the new items to the old ones
OrderSerializer_update_merging(prods, ords, items, instance, req, now) ==
    LET saved == Order_save(ords,
                            [instance EXCEPT !.customer_name = req.customer_name,
                                             !.customer_email = req.customer_email,
                                             !.total_amount = Get(req.total_amount)],
                            now)
    IN IF saved.error # ""
       THEN [orders |-> ords, order_items |-> items, error |-> saved.error]
       ELSE IF IsAbsent(req.order_items)
       THEN [orders |-> saved.orders, order_items |-> items, error |-> ""]
       ELSE LET created == create_order_items(prods, saved.orders, items,
                                              instance.id, validated_items(req))
            IN [orders |-> saved.orders, order_items |-> created.order_items,
                error |-> created.error]

\* OrderSerializer.update: [orders, order_items, error]
OrderSerializer_update(prods, ords, items, instance, req, now) ==
    LET saved == Order_save(ords,
                            [instance EXCEPT !.customer_name = req.customer_name,
                                             !.customer_email = req.customer_email,
                                             !.total_amount = Get(req.total_amount)],
                            now)
    IN IF saved.error # ""
       THEN [orders |-> ords, order_items |-> items, error |-> saved.error]
       ELSE IF IsAbsent(req.order_items)
       THEN [orders |-> saved.orders, order_items |-> items, error |-> ""]
       ELSE LET cleared == items \ ItemsOf(items, instance.id)
                created == create_order_items(prods, saved.orders, cleared,
                                              instance.id, validated_items(req))
            IN [orders |-> saved.orders, order_items |-> created.order_items,
                error |-> created.error]

-----------------------------------------------------------------------------
(* OrderViewSet *)

\* A handler's outcome on the order tables
OrderOutcome(ords, items, r) == [orders |-> ords, order_items |-> items, response |-> r]

\* OrderViewSet.create, lines 177-185: an item of the raw request without a
\* product or a quantity (0 is falsy)
lacks_product_or_quantity(item) ==
    \/ IsAbsent(item.product)
    \/ IsAbsent(item.quantity)
    \/ Get(item.quantity) = 0

\* OrderViewSet.create without its check that the request has items
OrderViewSet_create_accepts_no_items(prods, req) ==
    IF ~ OrderSerializer_is_valid(prods, req) THEN "ValidationError"
    ELSE IF IsAbsent(req.order_items) THEN ""
    ELSE IF \E k \in 1 .. Len(Get(req.order_items)) :
                lacks_product_or_quantity(Get(req.order_items)[k])
    THEN "Each order item must have product and quantity"
    ELSE ""

\* OrderViewSet.create, lines 164-185: the error body of the 400 the request is
\* answered with before anything is saved, "" when it gets as far as save
OrderViewSet_create_rejects(prods, req) ==
    IF ~ OrderSerializer_is_valid(prods, req) THEN "ValidationError"
    ELSE IF IsAbsent(req.order_items) \/ Get(req.order_items) = <<>>
    THEN "Order must contain at least one item"
    ELSE IF \E k \in 1 .. Len(Get(req.order_items)) :
                lacks_product_or_quantity(Get(req.order_items)[k])
    THEN "Each order item must have product and quantity"
    ELSE ""

\* OrderViewSet.create
OrderViewSet_create(prods, ords, items, req, now) ==
    IF OrderViewSet_create_rejects(prods, req) # ""
    THEN OrderOutcome(ords, items,
                      Response("order_create", HTTP_400_BAD_REQUEST,
                               OrderViewSet_create_rejects(prods, req), 0))
    ELSE LET r == OrderSerializer_create(prods, ords, items, req, now) IN
         OrderOutcome(r.orders, r.order_items,
                      IF r.error # "" THEN Response("order_create", 500, r.error, r.id)
                      ELSE Response("order_create", HTTP_201_CREATED, "", r.id))

\* OrderViewSet.get_queryset, lines 158-160: views.py imports Category, Product
\* and Order from .models (line 9), not OrderItem, so evaluating
\* OrderItem.objects raises NameError on every call.  get_object, the list and
\* by_customer go through it.  [error, queryset]
OrderViewSet_get_queryset(ords) == [error |-> "NameError", queryset |-> {}]

\* OrderViewSet.update (ModelViewSet, PUT): get_object (get_queryset, then the
\* row of pk), is_valid, OrderSerializer.update
OrderViewSet_update(prods, ords, items, pk, req, now) ==
    IF OrderViewSet_get_queryset(ords).error # ""
    THEN OrderOutcome(ords, items,
                      Response("order_update", 500, OrderViewSet_get_queryset(ords).error, 0))
    ELSE IF ~ \E o \in OrderViewSet_get_queryset(ords).queryset : o.id = pk
    THEN OrderOutcome(ords, items, Response("order_update", 404, "Http404", 0))
    ELSE IF ~ OrderSerializer_is_valid(prods, req)
    THEN OrderOutcome(ords, items,
                      Response("order_update", HTTP_400_BAD_REQUEST, "ValidationError", pk))
    ELSE LET instance == CHOOSE o \in ords : o.id = pk
             r == OrderSerializer_update(prods, ords, items, instance, req, now) IN
         OrderOutcome(r.orders, r.order_items,
                      IF r.error # "" THEN Response("order_update", 500, r.error, pk)
                      ELSE Response("order_update", 200, "", pk))

\* instance.delete(): the order's items go with it (OrderItem.order is
\* on_delete=CASCADE)
Order_delete(ords, items, pk) ==
    [orders |-> {o \in ords : o.id # pk}, order_items |-> items \ ItemsOf(items, pk)]

\* OrderViewSet.destroy (ModelViewSet): get_object, instance.delete()
OrderViewSet_destroy(ords, items, pk) ==
    IF OrderViewSet_get_queryset(ords).error # ""
    THEN OrderOutcome(ords, items,
                      Response("order_destroy", 500, OrderViewSet_get_queryset(ords).error, pk))
    ELSE IF ~ \E o \in OrderViewSet_get_queryset(ords).queryset : o.id = pk
    THEN OrderOutcome(ords, items, Response("order_destroy", 404, "Http404", pk))
    ELSE OrderOutcome(Order_delete(ords, items, pk).orders,
                      Order_delete(ords, items, pk).order_items,
                      Response("order_destroy", 204, "", pk))

\* OrderViewSet.update_status: get_object first; new_status is
\* request.data.get('status')
OrderViewSet_update_status(ords, items, pk, new_status, now) ==
    IF OrderViewSet_get_queryset(ords).error # ""
    THEN OrderOutcome(ords, items,
                      Response("update_status", 500, OrderViewSet_get_queryset(ords).error, pk))
    ELSE IF ~ \E o \in OrderViewSet_get_queryset(ords).queryset : o.id = pk
    THEN OrderOutcome(ords, items, Response("update_status", 404, "Http404", pk))
    ELSE IF IsAbsent(new_status) \/ Get(new_status) = ""
    THEN OrderOutcome(ords, items,
                      Response("update_status", HTTP_400_BAD_REQUEST, "Status is required", pk))
    ELSE IF Get(new_status) \notin ORDER_STATUS_CHOICES
    THEN OrderOutcome(ords, items,
                      Response("update_status", HTTP_400_BAD_REQUEST, "Invalid status", pk))
    ELSE LET order == CHOOSE o \in ords : o.id = pk
             saved == Order_save(ords, [order EXCEPT !.status = Get(new_status)], now) IN
         OrderOutcome(saved.orders, items,
                      IF saved.error # "" THEN Response("update_status", 500, saved.error, pk)
                      ELSE Response("update_status", 200, "", pk))

-----------------------------------------------------------------------------
(* CategoryViewSet.destroy, ProductViewSet: list, update, destroy *)

\* instance.products.exists()
has_products(prods, pk) == \E p \in prods : p.category = pk

\* CategoryViewSet.destroy without its check of the category's products: the
\* delete takes them along (Product.category is on_delete=CASCADE)
CategoryViewSet_destroy_cascading(cats, prods, pk) ==
    IF ~ \E c \in cats : c.id = pk
    THEN [categories |-> cats, products |-> prods,
          response |-> Response("category_destroy", 404, "Http404", pk)]
    ELSE [categories |-> {c \in cats : c.id # pk},
          products |-> {p \in prods : p.category # pk},
          response |-> Response("category_destroy", 204, "", pk)]

\* CategoryViewSet.destroy: [categories, products, response]
CategoryViewSet_destroy(cats, prods, pk) ==
    IF ~ \E c \in cats : c.id = pk
    THEN [categories |-> cats, products |-> prods,
          response |-> Response("category_destroy", 404, "Http404", pk)]
    ELSE IF has_products(prods, pk)
    THEN [categories |-> cats, products |-> prods,
          response |-> Response("category_destroy", HTTP_400_BAD_REQUEST,
                                "Cannot delete category with existing products", pk)]
    ELSE [categories |-> {c \in cats : c.id # pk},
          products |-> {p \in prods : p.category # pk},
          response |-> Response("category_destroy", 204, "", pk)]

\* str.lower() on the letters of the values sent for available_only
LowerChar(c) ==
    IF c = "T" THEN "t" ELSE IF c = "R" THEN "r" ELSE IF c = "U" THEN "u"
    ELSE IF c = "E" THEN "e" ELSE c

lower(chars) == [k \in 1 .. Len(chars) |-> LowerChar(chars[k])]

\* if available_only and available_only.lower() == 'true'
wants_available(available_only) ==
    IF IsAbsent(available_only) THEN FALSE
    ELSE IF Get(available_only) = <<>> THEN FALSE
    ELSE lower(Get(available_only)) = <<"t", "r", "u", "e">>

\* The query parameters of a product list: [min_price, max_price, category_id,
\* status, available_only], each optional; status is DjangoFilterBackend's
\* (filterset_fields), the others are get_queryset's.
price_filters(prods, params) ==
    {p \in prods :
        /\ (IF IsAbsent(params.min_price) THEN TRUE ELSE p.price >= Get(params.min_price))
        /\ (IF IsAbsent(params.max_price) THEN TRUE ELSE p.price <= Get(params.max_price))
        /\ (IF IsAbsent(params.category_id) THEN TRUE ELSE p.category = Get(params.category_id))}

\* ProductViewSet.get_queryset whose availability filter looks at the status only
ProductViewSet_get_queryset_ignoring_stock(prods, params) ==
    IF wants_available(params.available_only)
    THEN {p \in price_filters(prods, params) : p.status = "active"}
    ELSE price_filters(prods, params)

\* ProductViewSet.get_queryset
ProductViewSet_get_queryset(prods, params) ==
    IF wants_available(params.available_only)
    THEN {p \in price_filters(prods, params) : p.status = "active" /\ p.stock_quantity > 0}
    ELSE price_filters(prods, params)

\* ProductViewSet.list (ModelViewSet): filter_queryset(get_queryset()), the ids
\* of the products of the response
ProductViewSet_list(prods, params) ==
    {p.id : p \in {q \in ProductViewSet_get_queryset(prods, params) :
                      IF IsAbsent(params.status) THEN TRUE ELSE q.status = Get(params.status)}}

\* ProductViewSet.update (ModelViewSet, PUT): get_object, is_valid (status is
\* optional, one of the choices), the fields set on the instance, Product.save
ProductViewSet_update(cats, prods, pk, req) ==
    IF ~ \E p \in prods : p.id = pk
    THEN [products |-> prods, response |-> Response("product_update", 404, "Http404", pk)]
    ELSE IF ~ ProductSerializer_is_valid(cats, req)
    THEN [products |-> prods,
          response |-> Response("product_update", HTTP_400_BAD_REQUEST, "ValidationError", pk)]
    ELSE IF (IF IsAbsent(req.status) THEN FALSE ELSE Get(req.status) \notin PRODUCT_STATUS_CHOICES)
    THEN [products |-> prods,
          response |-> Response("product_update", HTTP_400_BAD_REQUEST, "ValidationError", pk)]
    ELSE LET product == CHOOSE p \in prods : p.id = pk
             updated == [product EXCEPT !.category = req.category, !.name = req.name,
                                        !.price = req.price,
                                        !.stock_quantity = req.stock_quantity,
                                        !.status = IF IsAbsent(req.status) THEN @
                                                   ELSE Get(req.status)] IN
         IF Product_full_clean(cats, updated) # ""
         THEN [products |-> prods,
               response |-> Response("product_update", 500, "django.ValidationError", pk)]
         ELSE [products |-> (prods \ {product}) \cup {updated},
               response |-> Response("product_update", 200, "", pk)]

\* ProductViewSet.destroy whose delete leaves the order items of the product
ProductViewSet_destroy_keeping_items(prods, items, pk) ==
    IF ~ \E p \in prods : p.id = pk
    THEN [products |-> prods, order_items |-> items,
          response |-> Response("product_destroy", 404, "Http404", pk)]
    ELSE [products |-> {p \in prods : p.id # pk}, order_items |-> items,
          response |-> Response("product_destroy", 204, "", pk)]

\* ProductViewSet.destroy (ModelViewSet): the order items of the product go
\* with it (OrderItem.product is on_delete=CASCADE).
\* [products, order_items, response]
ProductViewSet_destroy(prods, items, pk) ==
    IF ~ \E p \in prods : p.id = pk
    THEN [products |-> prods, order_items |-> items,
          response |-> Response("product_destroy", 404, "Http404", pk)]
    ELSE [products |-> {p \in prods : p.id # pk},
          order_items |-> {i \in items : i.product # pk},
          response |-> Response("product_destroy", 204, "", pk)]

-----------------------------------------------------------------------------
(* The catalogue's requests *)

CategoryNames == {"", "E", "Electronics", "Books"}

ProductRequests ==
    [category : CategoryIds, name : {"", "Laptop"}, price : {-100, 0, 500, 1000},
     stock_quantity : {-1, 0, 10}]

\* The quantities a stock update is sent: missing, "abc", "3.7", "7", "-2",
\* 3.7, -0.5, and the integers -1 .. 3.
StockQuantities ==
    {Absent,
     Some(JStr(<<"a", "b", "c">>)), Some(JStr(<<"3", ".", "7">>)),
     Some(JStr(<<"7">>)), Some(JStr(<<"-", "2">>)), Some(JStr(<<>>)),
     Some(JFloat(37, 10)), Some(JFloat(-5, 10))}
    \cup {Some(JInt(n)) : n \in -1 .. 3}

CategoryCreate(name) ==
    /\ Cardinality(categories) < MaxCategories
    /\ LET r == CategoryViewSet_create(categories, name) IN
       /\ categories' = r.categories
       /\ response' = r.response
    /\ UNCHANGED <<products, orderVars, workerVars, listing>>

ProductCreate(req) ==
    /\ Cardinality(products) < MaxProducts
    /\ LET r == ProductViewSet_create(categories, products, req) IN
       /\ products' = r.products
       /\ response' = r.response
    /\ UNCHANGED <<categories, orderVars, workerVars, listing>>

ProductUpdateStock(pk, quantity) ==
    LET r == ProductViewSet_update_stock(categories, products, pk, quantity) IN
    /\ products' = r.products
    /\ response' = r.response
    /\ UNCHANGED <<categories, orderVars, workerVars, listing>>

InitEmpty ==
    /\ categories = {}
    /\ products = {}
    /\ orders = {}
    /\ order_items = {}
    /\ clock = 0
    /\ issued = {}
    /\ response = NoResponse
    /\ pc = [w \in Workers |-> "idle"]
    /\ pending = [w \in Workers |-> Absent]
    /\ listing = {}

NextCatalog ==
    \/ \E name \in CategoryNames : CategoryCreate(name)
    \/ \E req \in ProductRequests : ProductCreate(req)
    \/ \E pk \in ProductIds, quantity \in StockQuantities : ProductUpdateStock(pk, quantity)

SpecCatalog == InitEmpty /\ [][NextCatalog]_vars

-----------------------------------------------------------------------------
(* Categories and products created, updated and deleted *)

\* PUT data of a product: the fields of a create and an optional status
ProductUpdateRequests ==
    [category : CategoryIds, name : {"", "Laptop"}, price : {-100, 0, 500, 1000},
     stock_quantity : {-1, 0, 10}, status : {Absent, Some("inactive"), Some("archived")}]

\* The requests that move the catalogue from state to state
ShelfRequests == {req \in ProductRequests : req.name # "" /\ req.price \in {0, 1000}
                                            /\ req.stock_quantity \in {-1, 10}}

ShelfUpdateRequests ==
    {req \in ProductUpdateRequests : /\ req.name # "" /\ req.price \in {0, 1000}
                                     /\ req.stock_quantity \in {-1, 10}
                                     /\ req.status # Some("archived")}

CategoryDestroy(pk) ==
    /\ \E r \in {CategoryViewSet_destroy(categories, products, pk)} :
       /\ categories' = r.categories
       /\ products' = r.products
       /\ response' = r.response
    /\ UNCHANGED <<orderVars, workerVars, listing>>

ProductUpdate(pk, req) ==
    /\ \E r \in {ProductViewSet_update(categories, products, pk, req)} :
       /\ products' = r.products
       /\ response' = r.response
    /\ UNCHANGED <<categories, orderVars, workerVars, listing>>

ProductDestroy(pk) ==
    /\ \E r \in {ProductViewSet_destroy(products, order_items, pk)} :
       /\ products' = r.products
       /\ order_items' = r.order_items
       /\ response' = r.response
    /\ UNCHANGED <<categories, orders, clock, issued, workerVars, listing>>

NextProducts ==
    \/ \E name \in CategoryNames : CategoryCreate(name)
    \/ \E pk \in CategoryIds : CategoryDestroy(pk)
    \/ \E req \in ShelfRequests : Cardinality(products) < MaxShelf /\ ProductCreate(req)
    \/ \E pk \in ProductIds, req \in ShelfUpdateRequests : ProductUpdate(pk, req)
    \/ \E pk \in ProductIds : ProductDestroy(pk)

SpecProducts == InitEmpty /\ [][NextProducts]_vars

-----------------------------------------------------------------------------
(* The product list *)

\* The query parameters sent: prices around the products', a category, a
\* status, and available_only as true, True, TRUE, false, the empty string
ListParams ==
    [min_price : {Absent, Some(600)}, max_price : {Absent, Some(600)},
     category_id : {Absent, Some(1)},
     status : {Absent, Some("active"), Some("inactive")},
     available_only : {Absent, Some(<<"t", "r", "u", "e">>), Some(<<"T", "r", "u", "e">>),
                       Some(<<"T", "R", "U", "E">>), Some(<<"f", "a", "l", "s", "e">>),
                       Some(<<>>)}]

ProductList(params) ==
    /\ listing' = ProductViewSet_list(products, params)
    /\ response' = Response("product_list", 200, "", 0)
    /\ UNCHANGED <<catalogVars, orderVars, workerVars>>

\* The PUT data that change a product's stock and status
ListingUpdateRequests ==
    {req \in ProductUpdateRequests : /\ req.category = 1 /\ req.name # ""
                                     /\ req.price = 1000 /\ req.stock_quantity >= 0
                                     /\ req.status # Some("archived")}

NextListing ==
    \/ \E pk \in ProductIds, req \in ListingUpdateRequests : ProductUpdate(pk, req)
    \/ \E pk \in ProductIds, n \in {0, 3} : ProductUpdateStock(pk, Some(JInt(n)))
    \/ \E params \in ListParams : ProductList(params)

-----------------------------------------------------------------------------
(* The order requests *)

Quantities == {1, 2}
TotalAmounts == {2500}

Item(product, quantity, unit_price) ==
    [product |-> product, quantity |-> quantity, unit_price |-> unit_price]

\* The items a client sends for the catalogue as it is: a product, a quantity
\* and the product's price
ValidItems == {Item(Some(p.id), Some(q), Some(p.price)) : p \in products, q \in Quantities}

AValidItem == CHOOSE v \in ValidItems : TRUE

\* Items that break a rule: no product, an unknown product, no quantity, a
\* quantity of 0 or -1, no unit price, a unit price that is not the product's
InvalidItems ==
    LET p == CHOOSE x \in products : \A y \in products : x.id <= y.id IN
    {Item(Absent, Some(1), Some(p.price)),
     Item(Some(MaxProducts + 1), Some(1), Some(p.price)),
     Item(Some(p.id), Absent, Some(p.price)),
     Item(Some(p.id), Some(0), Some(p.price)),
     Item(Some(p.id), Some(-1), Some(p.price)),
     Item(Some(p.id), Some(1), Absent),
     Item(Some(p.id), Some(1), Some(p.price + 1))}

\* The order_items of a request: missing, the empty list, one or two valid
\* items (the same product may repeat), or a list holding an invalid item
ItemLists ==
    {Absent, Some(<<>>)}
    \cup {Some(<<a>>) : a \in ValidItems}
    \cup {Some(<<a, b>>) : a \in ValidItems, b \in ValidItems}
    \cup {Some(<<b>>) : b \in InvalidItems}
    \cup {Some(<<AValidItem, b>>) : b \in InvalidItems}

OrderRequest(name, email, total, items) ==
    [customer_name |-> name, customer_email |-> email, total_amount |-> total,
     order_items |-> items]

\* Requests with a customer or a total that breaks a rule, and a valid item
InvalidOrderRequests ==
    {OrderRequest(h[1], h[2], h[3], Some(<<AValidItem>>)) :
        h \in {<<"", "john@example.com", Some(2500)>>,
               <<"John Doe", "", Some(2500)>>,
               <<"John Doe", "john@example.com", Absent>>,
               <<"John Doe", "john@example.com", Some(0)>>,
               <<"John Doe", "john@example.com", Some(-100)>>}}

\* A valid customer and total with every item list, and the invalid requests
OrderRequests ==
    {OrderRequest("John Doe", "john@example.com", Some(t), l) : t \in TotalAmounts, l \in ItemLists}
    \cup InvalidOrderRequests

\* The requests of the specifications that are about the orders, not their
\* items: one item, the same item twice, no item list
PlainOrderRequests ==
    {OrderRequest("John Doe", "john@example.com", Some(t), l) :
        t \in TotalAmounts,
        l \in {Absent, Some(<<AValidItem>>), Some(<<AValidItem, AValidItem>>)}}

StatusInputs == {Absent, Some(""), Some("archived"), Some("shipped"), Some("cancelled")}

-----------------------------------------------------------------------------
(* The order handlers, one request at a time *)

\* The rows of ords2 that are not rows of ords
Inserted(ords, ords2) == {o \in ords2 : ~ \E x \in ords : x.id = o.id}

\* The order numbers of the inserted rows, as numbers
IssuedBy(ords, ords2) == {parse_order_number(o.order_number) : o \in Inserted(ords, ords2)}

OrderCreate(req) ==
    /\ \E r \in {OrderViewSet_create(products, orders, order_items, req, clock + 1)} :
       /\ orders' = r.orders
       /\ order_items' = r.order_items
       /\ response' = r.response
       /\ clock' = clock + Cardinality(Inserted(orders, r.orders))
       /\ issued' = issued \cup IssuedBy(orders, r.orders)
    /\ UNCHANGED <<catalogVars, listing, workerVars>>

OrderUpdate(pk, req) ==
    /\ \E r \in {OrderViewSet_update(products, orders, order_items, pk, req, clock + 1)} :
       /\ orders' = r.orders
       /\ order_items' = r.order_items
       /\ response' = r.response
    /\ UNCHANGED <<clock, issued, catalogVars, listing, workerVars>>

OrderDestroy(pk) ==
    /\ \E r \in {OrderViewSet_destroy(orders, order_items, pk)} :
       /\ orders' = r.orders
       /\ order_items' = r.order_items
       /\ response' = r.response
    /\ UNCHANGED <<clock, issued, catalogVars, listing, workerVars>>

OrderUpdateStatus(pk, new_status) ==
    /\ \E r \in {OrderViewSet_update_status(orders, order_items, pk, new_status, clock + 1)} :
       /\ orders' = r.orders
       /\ order_items' = r.order_items
       /\ response' = r.response
    /\ UNCHANGED <<clock, issued, catalogVars, listing, workerVars>>

\* An order deleted on the model, not through OrderViewSet: the admin's
\* OrderAdmin, Order.objects.all().delete() of management/seed_data.py
OrderDelete(pk) ==
    /\ \E o \in orders : o.id = pk
    /\ orders' = Order_delete(orders, order_items, pk).orders
    /\ order_items' = Order_delete(orders, order_items, pk).order_items
    /\ response' = Response("order_delete", 0, "", pk)
    /\ UNCHANGED <<clock, issued, catalogVars, listing, workerVars>>

\* The fields such a caller sets on an order before it saves it again
OrderFields ==
    [customer_name : {"", "John Doe"}, total_amount : {-100, 0, 2500},
     status : {"shipped", "archived"}]

\* An order loaded, changed and saved again on the model: OrderAdmin's change
\* form, management/seed_data.py lines 135-136 and 158-159
OrderSaveAgain(pk, f) ==
    /\ \E o \in {x \in orders : x.id = pk} :
          \E r \in {Order_save(orders,
                               [o EXCEPT !.customer_name = f.customer_name,
                                         !.total_amount = f.total_amount,
                                         !.status = f.status],
                               clock + 1)} :
             /\ orders' = r.orders
             /\ response' = Response("order_save", 0, r.error, pk)
    /\ UNCHANGED <<order_items, clock, issued, catalogVars, listing, workerVars>>

\* A catalogue the product handlers build (one category, a product in stock and
\* one out of stock), and no order yet
InitOrders ==
    /\ categories = {[id |-> 1, name |-> "Electronics"]}
    /\ products = {[id |-> 1, category |-> 1, name |-> "Laptop", price |-> 1000,
                    stock_quantity |-> 10, status |-> "active"],
                   [id |-> 2, category |-> 1, name |-> "Laptop", price |-> 500,
                    stock_quantity |-> 0, status |-> "active"]}
    /\ orders = {}
    /\ order_items = {}
    /\ clock = 0
    /\ issued = {}
    /\ response = NoResponse
    /\ pc = [w \in Workers |-> "idle"]
    /\ pending = [w \in Workers |-> Absent]
    /\ listing = {}

\* The order handlers with every item list
Next ==
    \/ \E req \in OrderRequests : clock < MaxOrders /\ OrderCreate(req)
    \/ \E pk \in 1 .. MaxOrders, req \in OrderRequests : OrderUpdate(pk, req)
    \/ \E pk \in 1 .. MaxOrders : OrderDestroy(pk)

Spec == InitOrders /\ [][Next]_vars

\* The product list over the catalogue of InitOrders
SpecListing == InitOrders /\ [][NextListing]_vars

\* The life of the orders themselves: created, updated, moved from status to
\* status and deleted through the handlers, saved again and deleted on the
\* model, one request at a time
NextSequential ==
    \/ \E req \in PlainOrderRequests : clock < MaxNumbered /\ OrderCreate(req)
    \/ \E pk \in 1 .. MaxNumbered, req \in PlainOrderRequests : OrderUpdate(pk, req)
    \/ \E pk \in 1 .. MaxNumbered : OrderDestroy(pk)
    \/ \E pk \in 1 .. MaxNumbered, new_status \in StatusInputs : OrderUpdateStatus(pk, new_status)
    \/ \E pk \in 1 .. MaxNumbered : OrderDelete(pk)
    \/ \E pk \in 1 .. MaxNumbered, f \in OrderFields : OrderSaveAgain(pk, f)

SpecSequential == InitOrders /\ [][NextSequential]_vars

-----------------------------------------------------------------------------
(* OrderSerializer.update applied to an order and a request's data, as        *)
(* UpdateModelMixin.update applies it to the row get_object returns           *)

\* serializer = OrderSerializer(instance, data=req); is_valid(); save()
OrderSerializerUpdate(pk, req) ==
    /\ OrderSerializer_is_valid(products, req)
    /\ \E o \in {x \in orders : x.id = pk} :
          \E r \in {OrderSerializer_update(products, orders, order_items, o, req, clock + 1)} :
             /\ orders' = r.orders
             /\ order_items' = r.order_items
             /\ response' = Response("serializer_update", 0, r.error, pk)
    /\ UNCHANGED <<clock, issued, catalogVars, listing, workerVars>>

NextSerializer ==
    \/ \E req \in OrderRequests : clock < MaxOrders /\ OrderCreate(req)
    \/ \E pk \in 1 .. MaxOrders, req \in OrderRequests : OrderSerializerUpdate(pk, req)
    \/ \E pk \in 1 .. MaxOrders : OrderDelete(pk)

SpecSerializer == InitOrders /\ [][NextSerializer]_vars

-----------------------------------------------------------------------------
(* Order creation by concurrent requests: the statements of Order.save, each *)
(* its own step (no transaction spans them: nothing in the handlers opens    *)
(* one, and the database commits each statement)                             *)

InFlight == {w \in Workers : pc[w] # "idle"}

\* OrderViewSet.create down to Order.save, lines 172-180: the request is
\* validated, the instance is built and takes its number from the last order
SaveBegin(w, req) ==
    /\ pc[w] = "idle"
    /\ IF OrderViewSet_create_rejects(products, req) # ""
       THEN /\ response' = Response("order_create", HTTP_400_BAD_REQUEST,
                                    OrderViewSet_create_rejects(products, req), 0)
            /\ UNCHANGED <<pc, pending>>
       ELSE /\ pc' = [pc EXCEPT ![w] = "numbered"]
            /\ pending' = [pending EXCEPT ![w] =
                              Some([instance |-> Order_generate_number(orders, new_order(req)),
                                    req |-> req,
                                    last |-> IF orders = {} THEN 0
                                             ELSE Get(last_order(orders)).id])]
            /\ UNCHANGED response
    /\ UNCHANGED <<catalogVars, listing, orderVars>>

\* Order.save, line 182: full_clean, with the query of validate_unique
SaveValidate(w) ==
    /\ pc[w] = "numbered"
    /\ IF Order_full_clean(orders, Get(pending[w]).instance) # ""
       THEN /\ response' = Response("order_create", 500, "django.ValidationError", 0)
            /\ pc' = [pc EXCEPT ![w] = "idle"]
            /\ pending' = [pending EXCEPT ![w] = Absent]
       ELSE /\ pc' = [pc EXCEPT ![w] = "cleaned"]
            /\ UNCHANGED <<response, pending>>
    /\ UNCHANGED <<catalogVars, listing, orderVars>>

\* Order.save, line 183: the INSERT; then OrderSerializer.create, lines 96-97
SaveInsert(w) ==
    /\ pc[w] = "cleaned"
    /\ \E r \in {Order_write(orders, Get(pending[w]).instance, clock + 1)} :
       IF r.error # ""
       THEN /\ response' = Response("order_create", 500, r.error, 0)
            /\ UNCHANGED orderVars
       ELSE \E created \in {create_order_items(products, r.orders, order_items, r.instance.id,
                                               popped_items(Get(pending[w]).req))} :
            /\ orders' = r.orders
            /\ order_items' = created.order_items
            /\ clock' = clock + 1
            /\ issued' = issued \cup IssuedBy(orders, r.orders)
            /\ response' = IF created.error # ""
                           THEN Response("order_create", 500, created.error, r.instance.id)
                           ELSE Response("order_create", HTTP_201_CREATED, "", r.instance.id)
    /\ pc' = [pc EXCEPT ![w] = "idle"]
    /\ pending' = [pending EXCEPT ![w] = Absent]
    /\ UNCHANGED <<catalogVars, listing>>

NextConcurrent ==
    \/ \E w \in Workers, req \in PlainOrderRequests :
          clock + Cardinality(InFlight) < MaxNumbered /\ SaveBegin(w, req)
    \/ \E w \in Workers : SaveValidate(w)
    \/ \E w \in Workers : SaveInsert(w)
    \/ \E pk \in 1 .. MaxNumbered : OrderDelete(pk)

SpecConcurrent == InitOrders /\ [][NextConcurrent]_vars

-----------------------------------------------------------------------------
(* OrderItem.save called on the model itself (the admin's OrderItemAdmin,    *)
(* management/seed_data.py), not through the order handlers                  *)

\* The subtotals such a caller passes for quantity * unit_price = exact: none,
\* 0, the exact one, a wrong one
SuppliedSubtotals(exact) == {Absent, Some(0), Some(exact), Some(exact + 1)}

\* The fields such a caller sets on an item of product p
ItemFields(p) ==
    UNION {[quantity : {quantity}, unit_price : {unit_price},
            subtotal : SuppliedSubtotals(quantity * unit_price)] :
              quantity \in {0, 1, 2}, unit_price \in {-1, 0, p.price, 2 * p.price}}

\* old: Absent for OrderItem.objects.create(...), or the row that was loaded,
\* changed and saved again (its order and product kept)
OrderItemSave(old, order, product, f) ==
    /\ \E r \in {OrderItem_save(products, orders, order_items, old,
                                [order |-> order, product |-> product, quantity |-> f.quantity,
                                 unit_price |-> f.unit_price, subtotal |-> f.subtotal])} :
       /\ order_items' = r.order_items
       /\ response' = Response("orderitem_save", 0, r.error, 0)
    /\ UNCHANGED <<orders, clock, issued, catalogVars, listing, workerVars>>

\* Two different products in one list
TwoProductRequests ==
    {OrderRequest("John Doe", "john@example.com", Some(t), Some(<<a, b>>)) :
        t \in TotalAmounts,
        a \in {v \in ValidItems : Get(v.quantity) = 2},
        b \in {v \in ValidItems : Get(v.quantity) = 1}}

NextModel ==
    \/ \E req \in PlainOrderRequests \cup TwoProductRequests :
          clock < MaxModelOrders /\ OrderCreate(req)
    \/ \E pk \in 1 .. MaxModelOrders, req \in PlainOrderRequests : OrderUpdate(pk, req)
    \/ \E pk \in 1 .. MaxModelOrders : OrderDelete(pk)
    \/ \E o \in orders, p \in products : \E f \in ItemFields(p) :
          OrderItemSave(Absent, o.id, p.id, f)
    \/ \E i \in order_items : \E p \in {x \in products : x.id = i.product} :
          \E f \in ItemFields(p) : OrderItemSave(Some(i), i.order, i.product, f)

SpecModel == InitOrders /\ [][NextModel]_vars

-----------------------------------------------------------------------------
(* Orders beside a catalogue that changes *)

\* One, two equal or two different valid items, no item list, one item that
\* breaks a rule, a customer or total that breaks a rule
StoreOrderRequests ==
    PlainOrderRequests \cup TwoProductRequests \cup InvalidOrderRequests
    \cup {OrderRequest("John Doe", "john@example.com", Some(t), Some(<<b>>)) :
             t \in TotalAmounts, b \in InvalidItems}

\* Orders created, and deleted on the model, while products are deleted
NextStore ==
    \/ \E req \in (IF products = {} THEN {} ELSE StoreOrderRequests) :
          clock < MaxStoreOrders /\ OrderCreate(req)
    \/ \E pk \in 1 .. MaxStoreOrders, req \in (IF products = {} THEN {} ELSE PlainOrderRequests) :
          OrderUpdate(pk, req)
    \/ \E pk \in 1 .. MaxStoreOrders : OrderDestroy(pk)
    \/ \E pk \in 1 .. MaxStoreOrders : OrderDelete(pk)
    \/ \E pk \in ProductIds : ProductDestroy(pk)

SpecStore == InitOrders /\ [][NextStore]_vars

\* The same with OrderSerializer.update applied to the orders: the item list
\* left out, one item, the same item twice, two products
NextItems ==
    \/ NextStore
    \/ \E pk \in 1 .. MaxStoreOrders :
          \E req \in (IF products = {} THEN {} ELSE PlainOrderRequests \cup TwoProductRequests) :
             OrderSerializerUpdate(pk, req)

SpecItems == InitOrders /\ [][NextItems]_vars

\* PUT data for the products of the shop: a price or a stock below 0, a stock
\* of 0 or 10, the status left or set to inactive
ShopProductRequests ==
    {req \in ProductUpdateRequests : /\ req.category = 1 /\ req.name # ""
                                     /\ req.price \in {-100, 1000}
                                     /\ req.stock_quantity \in {-1, 10}
                                     /\ req.status # Some("archived")}

\* The fields an order is saved with again: shipped, with a name and a total
\* that keep or break a rule
ShopOrderFields ==
    {f \in OrderFields : f.status = "shipped" /\ f.total_amount \in {-100, 2500}}

\* Orders created, and saved again on the model, while the products' price,
\* stock and status change
NextShop ==
    \/ \E req \in StoreOrderRequests : clock < MaxShopOrders /\ OrderCreate(req)
    \/ \E pk \in 1 .. MaxShopOrders, req \in PlainOrderRequests : OrderUpdate(pk, req)
    \/ \E pk \in 1 .. MaxShopOrders : OrderDestroy(pk)
    \/ \E pk \in 1 .. MaxShopOrders, new_status \in StatusInputs :
          OrderUpdateStatus(pk, new_status)
    \/ \E pk \in 1 .. MaxShopOrders : OrderDelete(pk)
    \/ \E pk \in 1 .. MaxShopOrders, f \in ShopOrderFields : OrderSaveAgain(pk, f)
    \/ \E pk \in ProductIds, req \in ShopProductRequests : ProductUpdate(pk, req)
    \/ \E pk \in ProductIds, n \in {-1, 0} : ProductUpdateStock(pk, Some(JInt(n)))

SpecShop == InitOrders /\ [][NextShop]_vars

-----------------------------------------------------------------------------
(* Properties *)

RECURSIVE SumSubtotals(_)
SumSubtotals(items) ==
    IF items = {} THEN 0
    ELSE LET i == CHOOSE x \in items : TRUE IN i.subtotal + SumSubtotals(items \ {i})

OrderNumbers(ords) == {o.order_number : o \in ords}

\* C1 (SpecSequential): with one request at a time, the first order created in
\* an empty store gets ORD-001001, and every created order gets a number above
\* every number given to an order before it, so no number is given twice.
\* Violated: the number comes from the last order still in the table, so after
\* an order is deleted its number is given again.
C1_NumbersStrictlyIncrease ==
    [][\A o \in Inserted(orders, orders') :
          /\ (issued = {} => o.order_number = <<"O", "R", "D", "-", "0", "0", "1", "0", "0", "1">>)
          /\ \A n \in issued : parse_order_number(o.order_number) > n]_vars

\* C2 (SpecConcurrent): two creations that read the same last order compute the
\* same number; a save whose number is already in the table ends in a uniqueness
\* error (ValidationError of validate_unique, or the database's IntegrityError),
\* as a 500 and with the tables as they were; a save that inserts, inserts the
\* number it computed; and no two rows ever share a number.
C2_CollisionSurfaced ==
    [][/\ \A o1 \in orders', o2 \in orders' :
             o1.order_number = o2.order_number => o1.id = o2.id
       /\ \A w1 \in InFlight, w2 \in InFlight :
             Get(pending[w1]).last = Get(pending[w2]).last
                => Get(pending[w1]).instance.order_number = Get(pending[w2]).instance.order_number
       /\ \A w \in InFlight :
             pc'[w] = "idle" =>
                IF Get(pending[w]).instance.order_number \in OrderNumbers(orders)
                THEN /\ orders' = orders
                     /\ order_items' = order_items
                     /\ response'.code = 500
                     /\ response'.error \in {"django.ValidationError", "IntegrityError"}
                ELSE /\ Cardinality(Inserted(orders, orders')) = 1
                     /\ \A o \in Inserted(orders, orders') :
                           o.order_number = Get(pending[w]).instance.order_number]_vars

\* Both workers had read the same last order and passed validate_unique before
\* either wrote: the second INSERT hit the unique index.
C2_Witness ==
    /\ response.error = "IntegrityError"
    /\ response.code = 500
    /\ orders # {}

\* C3 (Spec): an order created by the create handler with items has a
\* total_amount equal to the sum of its items' subtotals.
\* Violated: total_amount is the request's, never computed from the items.
C3_TotalIsSumOfSubtotals ==
    (response.op = "order_create" /\ response.code = HTTP_201_CREATED)
       => \A o \in orders :
             o.id = response.id => o.total_amount = SumSubtotals(ItemsOf(order_items, o.id))

\* C4 (Spec): an order create or update that fails leaves the order tables as
\* they were.
\* Violated: each statement is committed on its own, so a failure at the second
\* item leaves the order, the first item and the deletion of the old items.
C4_NoPartialPersistence ==
    [][(response'.op \in {"order_create", "order_update"} /\ response'.code >= 400)
          => (orders' = orders /\ order_items' = order_items)]_vars

\* C5 (SpecSequential): every row has an order number from its insert on, and no
\* step (full update, status update, item replacement through the handlers, any
\* later save of the row) changes the number of a row.
C5_OrderNumberImmutable ==
    [][/\ \A n \in orders' : n.order_number # <<>>
       /\ \A o \in orders, n \in orders' : n.id = o.id => n.order_number = o.order_number]_vars

\* The second order was saved again with the status shipped, and still has the
\* number of its insert.
C5_Witness ==
    /\ response.op = "order_save"
    /\ response.error = ""
    /\ \E o \in orders : /\ o.id = 2
                         /\ o.status = "shipped"
                         /\ o.order_number = format_order_number(1002)

\* C6 (Spec): a request that ends in a validation error is answered with 400.
\* Violated: the ValidationError of OrderItem.save (a product twice in one order)
\* is django's, raised inside serializer.save(), and leaves the handler.
C6_ValidationErrorsAre400 ==
    response.error \in {"ValidationError", "django.ValidationError"}
       => response.code = HTTP_400_BAD_REQUEST

\* The request's order_items is missing or empty, or one of its items has no
\* product, or a quantity that is missing, zero or negative
LacksValidItems(req) ==
    IF IsAbsent(req.order_items) THEN TRUE
    ELSE \/ Get(req.order_items) = <<>>
         \/ \E k \in 1 .. Len(Get(req.order_items)) :
               LET item == Get(req.order_items)[k] IN
               IF IsAbsent(item.product) \/ IsAbsent(item.quantity) THEN TRUE
               ELSE Get(item.quantity) <= 0

\* C7 (Spec): in every reachable state, the create handler answers every request
\* whose order_items is missing or empty, or has an item without a product or
\* with no positive quantity, with 400 and leaves orders and order items as
\* they are.
C7_CreateWithoutItemsRejected ==
    \A req \in OrderRequests :
       LacksValidItems(req) =>
          LET r == OrderViewSet_create(products, orders, order_items, req, clock + 1) IN
          /\ r.response.code = HTTP_400_BAD_REQUEST
          /\ r.orders = orders
          /\ r.order_items = order_items

\* A create without items was refused while an order with its item was in the
\* tables, and they are still there.
C7_Witness ==
    /\ response.op = "order_create"
    /\ response.error = "Order must contain at least one item"
    /\ Cardinality(orders) = 1
    /\ Cardinality(order_items) = 1

\* C8 (SpecModel): every row of order items has subtotal = quantity * unit_price.
C8_SubtotalIsQuantityTimesPrice ==
    \A i \in order_items : i.subtotal = i.quantity * i.unit_price

\* An item saved on the model with a price of its own (not the product's) and a
\* quantity of 2 is in the table.
C8_Witness ==
    /\ response.op = "orderitem_save"
    /\ response.error = ""
    /\ \E i \in order_items : \E p \in products :
          /\ p.id = i.product
          /\ i.unit_price = 2 * p.price
          /\ i.quantity = 2
          /\ i.subtotal = 4 * p.price

\* The row an item of a request stands for
ItemRow(order_id, item) ==
    [order |-> order_id, product |-> Get(item.product), quantity |-> Get(item.quantity),
     unit_price |-> Get(item.unit_price),
     subtotal |-> Get(item.quantity) * Get(item.unit_price)]

\* C9 (SpecSerializer): in every reachable state, every OrderSerializer.update
\* of an order with valid data that succeeds leaves the order with exactly the
\* items of its list, one row for each, when the data has a list, and with its
\* items as they were when it has none; the items of the other orders stay.
C9_UpdateReplacesItems ==
    \A o \in orders, req \in OrderRequests :
       OrderSerializer_is_valid(products, req) =>
          LET r == OrderSerializer_update(products, orders, order_items, o, req, clock + 1)
              pk == o.id
          IN r.error = "" =>
                /\ r.order_items \ ItemsOf(r.order_items, pk) = order_items \ ItemsOf(order_items, pk)
                /\ IF IsAbsent(req.order_items)
                   THEN ItemsOf(r.order_items, pk) = ItemsOf(order_items, pk)
                   ELSE /\ ItemsOf(r.order_items, pk) =
                              {ItemRow(pk, Get(req.order_items)[k]) :
                                  k \in 1 .. Len(Get(req.order_items))}
                        /\ Cardinality(ItemsOf(r.order_items, pk)) = Len(Get(req.order_items))

\* An order was updated with the empty list and has no item left (create gives
\* every order an item), beside an order that kept its two items.
C9_Witness ==
    /\ response.op = "serializer_update"
    /\ response.error = ""
    /\ \E o \in orders : ItemsOf(order_items, o.id) = {}
    /\ \E o \in orders : Cardinality(ItemsOf(order_items, o.id)) = 2

\* The quantity is an integer: an int, a string of an integer, or a float with
\* no fraction
IsIntegerQuantity(quantity) ==
    IF IsAbsent(quantity) THEN FALSE
    ELSE IF Get(quantity).t = "int" THEN TRUE
    ELSE IF Get(quantity).t = "str" THEN StrIsInt(Get(quantity).s)
    ELSE Get(quantity).n % Get(quantity).d = 0

IntegerQuantity(quantity) ==
    IF Get(quantity).t = "int" THEN Get(quantity).v
    ELSE IF Get(quantity).t = "str" THEN StrToInt(Get(quantity).s)
    ELSE Truncate(Get(quantity).n, Get(quantity).d)

\* C10 (SpecCatalog): in every reachable state, the stock update of a product
\* answers 400 and leaves the stock when the quantity is missing, is not an
\* integer or is a negative integer, and sets the stock to the quantity when it
\* is an integer >= 0.
\* Violated: int() truncates a float, so 3.7 is accepted and the stock set to 3.
C10_StockUpdateContract ==
    \A p \in products, quantity \in StockQuantities :
       LET r == ProductViewSet_update_stock(categories, products, p.id, quantity)
           after == (CHOOSE x \in r.products : x.id = p.id).stock_quantity
       IN IF IsIntegerQuantity(quantity)
          THEN IF IntegerQuantity(quantity) >= 0
               THEN after = IntegerQuantity(quantity)
               ELSE r.response.code = HTTP_400_BAD_REQUEST /\ after = p.stock_quantity
          ELSE r.response.code = HTTP_400_BAD_REQUEST /\ after = p.stock_quantity

\* C11 (SpecSequential): in every reachable state, the status update of an
\* order answers 400 and leaves its status when the status is absent or is not
\* one of the five defined ones, and otherwise answers 200 and sets the order's
\* status to the requested one, whatever its status was.
\* Violated: get_object calls OrderViewSet.get_queryset, which raises NameError
\* (OrderItem is not imported in views.py), so every status update ends in 500
\* and no status is ever changed.
C11_StatusUpdateContract ==
    \A o \in orders, new_status \in StatusInputs :
       LET r == OrderViewSet_update_status(orders, order_items, o.id, new_status, clock + 1)
           after == {x.status : x \in {y \in r.orders : y.id = o.id}}
       IN IF IsAbsent(new_status)
          THEN r.response.code = HTTP_400_BAD_REQUEST /\ after = {o.status}
          ELSE IF Get(new_status) \notin ORDER_STATUS_CHOICES
          THEN r.response.code = HTTP_400_BAD_REQUEST /\ after = {o.status}
          ELSE r.response.code = 200 /\ after = {Get(new_status)}

\* C12 (SpecProducts): in every reachable state, the delete of a category that
\* has a product is answered with 400 and leaves categories and products as
\* they are, and the delete of a category that has none removes that category
\* and no product.
C12_CategoryDeleteGuarded ==
    \A c \in categories :
       LET r == CategoryViewSet_destroy(categories, products, c.id) IN
       /\ r.products = products
       /\ IF \E p \in products : p.category = c.id
          THEN r.response.code = HTTP_400_BAD_REQUEST /\ r.categories = categories
          ELSE r.response.code = 204 /\ r.categories = categories \ {c}

\* The delete of a category was refused, and the category and its product are
\* in the tables.
C12_Witness ==
    /\ response.op = "category_destroy"
    /\ response.code = HTTP_400_BAD_REQUEST
    /\ \E c \in categories : c.id = response.id /\ \E p \in products : p.category = c.id

\* The data breaks one of the three rules of the sentence
BreaksProductRule(req) == req.name = "" \/ req.price < 0 \/ req.stock_quantity < 0

\* The product's fields are the data's
HasFieldsOf(p, req) ==
    /\ p.category = req.category
    /\ p.name = req.name
    /\ p.price = req.price
    /\ p.stock_quantity = req.stock_quantity

\* C13 (SpecProducts): in every reachable state, a product create or full
\* update with an existing category (and no undefined status) is answered with
\* a validation error and persists nothing exactly when the name is empty, the
\* price is below 0 or the stock is below 0; every other one is persisted,
\* price 0 included.
\* Violated: ProductSerializer.validate_price rejects value <= 0, so a product
\* with price 0 is refused.
C13_ProductRules ==
    /\ Cardinality(products) < MaxProducts =>
          \A req \in ProductRequests :
             (\E c \in categories : c.id = req.category) =>
                LET r == ProductViewSet_create(categories, products, req) IN
                IF BreaksProductRule(req)
                THEN r.response.error = "ValidationError" /\ r.products = products
                ELSE /\ r.response.code = HTTP_201_CREATED
                     /\ \E p \in r.products \ products : HasFieldsOf(p, req)
    /\ \A o \in products, req \in ProductUpdateRequests :
          ((\E c \in categories : c.id = req.category) /\ req.status # Some("archived")) =>
             LET r == ProductViewSet_update(categories, products, o.id, req) IN
             IF BreaksProductRule(req)
             THEN r.response.error = "ValidationError" /\ r.products = products
             ELSE /\ r.response.code = 200
                  /\ \E p \in r.products : p.id = o.id /\ HasFieldsOf(p, req)

\* The parameters with available_only taken out
WithoutAvailableOnly(params) == [params EXCEPT !.available_only = Absent]

\* C16 (SpecListing): in every reachable state, is_available of a product is
\* true exactly when its status is active and its stock is above 0, and the
\* product list with available_only=true (in any case of the letters) returns
\* exactly the available ones of the products the same list returns without
\* available_only.
C16_AvailableOnly ==
    /\ \A p \in products : is_available(p) <=> (p.status = "active" /\ p.stock_quantity > 0)
    /\ \A params \in ListParams :
          params.available_only \in {Some(<<"t", "r", "u", "e">>), Some(<<"T", "r", "u", "e">>),
                                     Some(<<"T", "R", "U", "E">>)}
             => ProductViewSet_list(products, params) =
                   {p.id : p \in {q \in products :
                                    /\ q.id \in ProductViewSet_list(products,
                                                                    WithoutAvailableOnly(params))
                                    /\ is_available(q)}}

\* A list with available_only returned the first product only, while the
\* second is in stock and inactive.
C16_Witness ==
    /\ response.op = "product_list"
    /\ listing = {1}
    /\ \E p \in products : p.id = 1 /\ p.stock_quantity = 3
    /\ \E p \in products : p.id = 2 /\ p.status = "inactive" /\ p.stock_quantity > 0

\* C14 (SpecShop): in every state, whatever creations, updates, stock updates
\* and status updates came before, every product has a price and a stock of at
\* least 0, every order a non-empty customer name and email and a total of at
\* least 0, and every order item a quantity of at least 1 and a unit price of
\* at least 0.
C14_FieldBounds ==
    /\ \A p \in products : p.price >= 0 /\ p.stock_quantity >= 0
    /\ \A o \in orders :
          o.customer_name # "" /\ o.customer_email # "" /\ o.total_amount >= 0
    /\ \A i \in order_items : i.quantity >= 1 /\ i.unit_price >= 0

\* A stock of -1 was just refused, beside an order and its items
C14_Witness ==
    /\ response.op = "update_stock"
    /\ response.code = HTTP_400_BAD_REQUEST
    /\ response.error = "django.ValidationError"
    /\ orders # {}
    /\ order_items # {}

\* C15 (SpecItems): in every state every order item refers to an order and to a
\* product that are in the tables, and no two items have the same order and the
\* same product; deleting an order leaves none of its items. Creations with a
\* product twice in the list, OrderSerializer.update with such a list, and
\* deletions of orders and products all keep it.
C15_ItemsReferToRows ==
    /\ \A i \in order_items :
          /\ \E o \in orders : o.id = i.order
          /\ \E p \in products : p.id = i.product
          /\ \A j \in order_items : (j.order = i.order /\ j.product = i.product) => j = i
    /\ \A o \in orders :
          ItemsOf(Order_delete(orders, order_items, o.id).order_items, o.id) = {}

\* The second of two orders was deleted and the first still has its items
C15_Witness ==
    /\ response.op = "order_delete"
    /\ response.id = 2
    /\ \E o \in orders : o.id = 1 /\ ItemsOf(order_items, 1) # {}
    /\ ~ \E o \in orders : o.id = 2

\* C17 (SpecStore): every order created by the create handler has at least one
\* order item in every later state in which the order is in the table.
\* Violated: DELETE /products/<id>/ takes the order items of the product with
\* it, and an order whose items were all of that product is left with none.
C17_OrdersKeepAnItem ==
    \A o \in orders : ItemsOf(order_items, o.id) # {}

\* The operations on orders, by the name their response carries
OrderOperations ==
    {"order_create", "order_update", "order_destroy", "update_status", "order_delete",
     "order_save"}

\* C18 (SpecShop): a creation, update, status update, deletion or save of an
\* order leaves every product with the stock_quantity and the status it had;
\* and in every state an order for one item of any product, at the product's
\* price and for a quantity of 1 or of one more than its stock, is answered 201
\* and inserted with that item, whatever the product's stock and status.
C18_OrdersLeaveStock ==
    /\ [](\A p \in products : \A q \in {1, p.stock_quantity + 1} :
            LET req == OrderRequest("John Doe", "john@example.com", Some(2500),
                                    Some(<<Item(Some(p.id), Some(q), Some(p.price))>>))
                r == OrderViewSet_create(products, orders, order_items, req, clock + 1)
            IN /\ r.response.code = HTTP_201_CREATED
               /\ \E i \in r.order_items :
                     i.order = r.response.id /\ i.product = p.id /\ i.quantity = q)
    /\ [][response'.op \in OrderOperations =>
            /\ {p.id : p \in products'} = {p.id : p \in products}
            /\ \A p \in products : \A x \in products' :
                  x.id = p.id => x.stock_quantity = p.stock_quantity /\ x.status = p.status]_vars

\* An order was just created for a quantity above the stock of a product that
\* is inactive
C18_Witness ==
    /\ response.op = "order_create"
    /\ response.code = HTTP_201_CREATED
    /\ \E i \in ItemsOf(order_items, response.id) : \E p \in products :
          p.id = i.product /\ i.quantity > p.stock_quantity /\ p.status = "inactive"

=============================================================================
